---------------------------- MODULE Spec2Model ----------------------------
(***************************************************************************)
(* Limit order book of src/Orderbook/orderbook.cpp (class OrderBook with   *)
(* its LevelManager price levels and the active_orders registry).          *)
(*                                                                         *)
(* Prices are the double keys of the two std::map indexes; the code only   *)
(* compares them (<, !=, map ordering), so they are modelled as ticks      *)
(* 1..MaxPrice: ordered numbers, NaN (which std::map cannot order) is not  *)
(* a price.  Quantities are uint64_t; within 0..MaxQty and MaxId orders no *)
(* sum reaches 2^64, so the arithmetic is the exact one.                   *)
(*                                                                         *)
(* Every public operation is one action that runs the whole handler,       *)
(* matching loop included (the book is single threaded and synchronous).   *)
(* The variables call, before, result, matching and guard record the last  *)
(* call, the book it was made on, its return value, the match steps it     *)
(* performed (the trades it printed) and the defensive branch the matching *)
(* loop left through, if any; snapshot holds the two vectors the last      *)
(* get_snapshot filled.                                                    *)
(***************************************************************************)
EXTENDS Integers, Sequences, FiniteSets

VARIABLES bid_levels, ask_levels, active_orders,
          call, before, result, matching, guard, snapshot

vars == <<bid_levels, ask_levels, active_orders,
          call, before, result, matching, guard, snapshot>>

\* ------------------------------------------------------------------ bounds
MaxId == 3
MaxPrice == 3
MaxQty == 2
MaxDepth == 4

Ids == 1..MaxId
Prices == 1..MaxPrice
Qtys == 0..MaxQty
Depths == 0..MaxDepth

\* ----------------------------------------------------------- map helpers
\* std::map / std::unordered_map erase(key)
MapErase(f, k) == [x \in DOMAIN f \ {k} |-> f[x]]

\* std::map / std::unordered_map operator[](key) = value
MapPut(f, k, v) == [x \in DOMAIN f \cup {k} |-> IF x = k THEN v ELSE f[x]]

\* an empty std::map
EmptyMap == [x \in {} |-> 0]

\* bid_levels.rbegin(): the greatest key
MaxKey(side) == CHOOSE p \in DOMAIN side : \A q \in DOMAIN side : q <= p

\* ask_levels.begin(): the least key
MinKey(side) == CHOOSE p \in DOMAIN side : \A q \in DOMAIN side : p <= q

\* ----------------------------------------------------------- LevelManager
LevelManager(price) ==
    [price_point |-> price, order_queue |-> <<>>, aggregate_volume |-> 0]

\* push_order with push_front for push_back
push_order_Front(level, order_id, qty) ==
    [level EXCEPT !.order_queue = <<order_id>> \o @,
                  !.aggregate_volume = @ + qty]

push_order(level, order_id, qty) ==
    [level EXCEPT !.order_queue = Append(@, order_id),
                  !.aggregate_volume = @ + qty]

\* std::find over the deque: index of the first occurrence, 0 for end()
FindFirst(q, order_id) ==
    IF \E i \in 1..Len(q) : q[i] = order_id
    THEN CHOOSE i \in 1..Len(q) :
            q[i] = order_id /\ \A j \in 1..(i - 1) : q[j] # order_id
    ELSE 0

\* EraseAt with the element overwritten by the last one and the last popped
EraseAt_SwapPop(q, i) ==
    [j \in 1..(Len(q) - 1) |-> IF j = i THEN q[Len(q)] ELSE q[j]]

\* deque::erase(iter)
EraseAt(q, i) == SubSeq(q, 1, i - 1) \o SubSeq(q, i + 1, Len(q))

\* remove_order without the aggregate_volume -= qty
remove_order_KeepQueued(level, order_id, qty) ==
    IF FindFirst(level.order_queue, order_id) # 0
    THEN [level EXCEPT !.aggregate_volume = @ - qty]
    ELSE level

remove_order_KeepVolume(level, order_id, qty) ==
    LET i == FindFirst(level.order_queue, order_id)
    IN  IF i # 0 THEN [level EXCEPT !.order_queue = EraseAt(@, i)] ELSE level

remove_order(level, order_id, qty) ==
    LET i == FindFirst(level.order_queue, order_id)
    IN  IF i # 0
        THEN [level EXCEPT !.order_queue = EraseAt(@, i),
                           !.aggregate_volume = @ - qty]
        ELSE level

\* update_volume with old_qty and new_qty taken for one another
update_volume_Swapped(level, old_qty, new_qty) ==
    [level EXCEPT !.aggregate_volume = @ - new_qty + old_qty]

update_volume(level, old_qty, new_qty) ==
    [level EXCEPT !.aggregate_volume = @ - old_qty + new_qty]

is_empty(level) == level.order_queue = <<>>

\* -------------------------------------------------------------- OrderBook
\* A book is the record of the three containers of OrderBook.
Book(bids, asks, orders) ==
    [bid_levels |-> bids, ask_levels |-> asks, active_orders |-> orders]

fetch_side(b, buy_side) == IF buy_side THEN b.bid_levels ELSE b.ask_levels

\* writing through the reference fetch_side returns
store_side(b, buy_side, side) ==
    IF buy_side THEN [b EXCEPT !.bid_levels = side]
                ELSE [b EXCEPT !.ask_levels = side]

get_or_create_level_AlwaysNew(b, buy_side, price) ==
    store_side(b, buy_side, MapPut(fetch_side(b, buy_side), price, LevelManager(price)))

get_or_create_level(b, buy_side, price) ==
    LET side == fetch_side(b, buy_side)
    IN  IF price \notin DOMAIN side
        THEN store_side(b, buy_side, MapPut(side, price, LevelManager(price)))
        ELSE b

\* cleanup_level that never erases
cleanup_level_Never(b, buy_side, price) == b

cleanup_level(b, buy_side, price) ==
    LET side == fetch_side(b, buy_side)
    IN  IF price \in DOMAIN side /\ is_empty(side[price])
        THEN store_side(b, buy_side, MapErase(side, price))
        ELSE b

\* cancel_active without the active_orders.erase(iter)
cancel_active_KeepEntry(b, order_id) ==
    LET ord  == b.active_orders[order_id]
        side == fetch_side(b, ord.is_buy)
    IN  IF ord.price \in DOMAIN side
        THEN cleanup_level(
                 store_side(b, ord.is_buy,
                     [side EXCEPT ![ord.price] =
                         remove_order(@, order_id, ord.quantity)]),
                 ord.is_buy, ord.price)
        ELSE b

\* cancel_order on an id the registry holds: the book after the call
cancel_active(b, order_id) ==
    LET ord  == b.active_orders[order_id]
        side == fetch_side(b, ord.is_buy)
        b1   == IF ord.price \in DOMAIN side
                THEN cleanup_level(
                         store_side(b, ord.is_buy,
                             [side EXCEPT ![ord.price] =
                                 remove_order(@, order_id, ord.quantity)]),
                         ord.is_buy, ord.price)
                ELSE b
    IN  [b1 EXCEPT !.active_orders = MapErase(@, order_id)]

\* cancel_order that returns true for an id the registry does not hold
cancel_order_AlwaysTrue(b, order_id) ==
    IF order_id \notin DOMAIN b.active_orders
    THEN [book |-> b, ret |-> TRUE]
    ELSE [book |-> cancel_active(b, order_id), ret |-> TRUE]

\* cancel_order: the book after the call and the value returned
cancel_order(b, order_id) ==
    IF order_id \notin DOMAIN b.active_orders
    THEN [book |-> b, ret |-> FALSE]
    ELSE [book |-> cancel_active(b, order_id), ret |-> TRUE]

\* match_quantity with max for min
match_quantity_BidOnly(bid_qty, ask_qty) == bid_qty

match_quantity_Max(bid_qty, ask_qty) == IF bid_qty < ask_qty THEN ask_qty ELSE bid_qty

\* min(bid_order.quantity, ask_order.quantity)
match_quantity(bid_qty, ask_qty) == IF bid_qty < ask_qty THEN bid_qty ELSE ask_qty

\* the trade process_match prints, with the quantity it matched
Trade(bid_id, bid_order, ask_id, ask_order, match_qty) ==
    [bid_id |-> bid_id, bid_price |-> bid_order.price,
     ask_id |-> ask_id, ask_price |-> ask_order.price,
     match_qty |-> match_qty]

\* process_match: matched is FALSE on the early return for an id that the
\* registry does not hold.  The second test reads ask_order.quantity through
\* the reference taken before cancel_order(bid_id): the ask's entry is another
\* entry of the registry (the two ids come from queues of different sides), so
\* it reads the quantity left by the decrement.
process_match(b, bid_id, ask_id) ==
    IF bid_id \notin DOMAIN b.active_orders \/ ask_id \notin DOMAIN b.active_orders
    THEN [book |-> b, matched |-> FALSE]
    ELSE LET bid_order == b.active_orders[bid_id]
             ask_order == b.active_orders[ask_id]
             match_qty == match_quantity(bid_order.quantity, ask_order.quantity)
             b1 == [b EXCEPT !.active_orders =
                       [@ EXCEPT ![bid_id].quantity = @ - match_qty,
                                 ![ask_id].quantity = @ - match_qty]]
             b2 == IF bid_order.price \in DOMAIN b1.bid_levels
                   THEN [b1 EXCEPT !.bid_levels[bid_order.price] =
                            update_volume(@, match_qty, 0)]
                   ELSE b1
             b3 == IF ask_order.price \in DOMAIN b2.ask_levels
                   THEN [b2 EXCEPT !.ask_levels[ask_order.price] =
                            update_volume(@, match_qty, 0)]
                   ELSE b2
             b4 == IF b3.active_orders[bid_id].quantity = 0
                   THEN cancel_order(b3, bid_id).book
                   ELSE b3
             b5 == IF b3.active_orders[ask_id].quantity = 0
                   THEN cancel_order(b4, ask_id).book
                   ELSE b4
         IN  [book |-> b5, matched |-> TRUE,
              trade |-> Trade(bid_id, bid_order, ask_id, ask_order, match_qty)]

\* best_bid_level with begin() for rbegin()
best_bid_level_Begin(b) == b.bid_levels[MinKey(b.bid_levels)]

\* bid_levels.rbegin()->second and ask_levels.begin()->second
best_bid_level(b) == b.bid_levels[MaxKey(b.bid_levels)]
\* best_ask_level with the last key of the map for the first
best_ask_level_End(b) == b.ask_levels[MaxKey(b.ask_levels)]

best_ask_level(b) == b.ask_levels[MinKey(b.ask_levels)]

\* uncrossed with <= for <
uncrossed_OrEqual(best_bid_price, best_ask_price) == best_bid_price <= best_ask_price

\* the test that ends the loop on an uncrossed book
uncrossed(best_bid_price, best_ask_price) == best_bid_price < best_ask_price

\* execute_matching: the book the loop leaves, the steps it made (book before,
\* trade, book after) and the defensive branch it left through.  An early
\* return of process_match changes nothing, so the loop would repeat the same
\* iteration for ever: that outcome is recorded as guard "missing_id".
RECURSIVE execute_matching(_, _)
execute_matching(b, log) ==
    IF DOMAIN b.bid_levels = {} \/ DOMAIN b.ask_levels = {}
    THEN [book |-> b, log |-> log, guard |-> "none"]
    ELSE LET bid_level == best_bid_level(b)
             ask_level == best_ask_level(b)
         IN  IF uncrossed(bid_level.price_point, ask_level.price_point)
             THEN [book |-> b, log |-> log, guard |-> "none"]
             ELSE IF bid_level.order_queue = <<>> \/ ask_level.order_queue = <<>>
             THEN [book |-> b, log |-> log, guard |-> "empty_queue"]
             ELSE LET m == process_match(b, Head(bid_level.order_queue),
                                            Head(ask_level.order_queue))
                  IN  IF ~m.matched
                      THEN [book |-> b, log |-> log, guard |-> "missing_id"]
                      ELSE execute_matching(m.book,
                               Append(log, [pre |-> b, trade |-> m.trade,
                                            post |-> m.book]))

\* is_duplicate that never finds the id
is_duplicate_Never(b, order_id) == FALSE

\* the duplicate test of add_order
is_duplicate(b, order_id) == order_id \in DOMAIN b.active_orders

\* add_order; an order is [order_id, is_buy, price, quantity] (timestamp_ns is
\* stored and never read by any operation)
add_order(b, order) ==
    IF is_duplicate(b, order.order_id)
    THEN [book |-> b, log |-> <<>>, guard |-> "none"]
    ELSE LET b1 == get_or_create_level(b, order.is_buy, order.price)
             b2 == store_side(b1, order.is_buy,
                       [fetch_side(b1, order.is_buy) EXCEPT ![order.price] =
                           push_order(@, order.order_id, order.quantity)])
             b3 == [b2 EXCEPT !.active_orders = MapPut(@, order.order_id, order)]
         IN  execute_matching(b3, <<>>)

\* amend_reprice without modified_order.quantity = new_quantity
amend_reprice_KeepQuantity(b, order_id, new_price, new_quantity) ==
    LET modified_order == [b.active_orders[order_id] EXCEPT !.price = new_price]
        a == add_order(cancel_order(b, order_id).book, modified_order)
    IN  [book |-> a.book, ret |-> TRUE, log |-> a.log, guard |-> a.guard]

\* amend_order, the branch ord.price != new_price: cancel, then add the
\* modified copy of the order
amend_reprice(b, order_id, new_price, new_quantity) ==
    LET modified_order == [b.active_orders[order_id] EXCEPT
                              !.price = new_price, !.quantity = new_quantity]
        a == add_order(cancel_order(b, order_id).book, modified_order)
    IN  [book |-> a.book, ret |-> TRUE, log |-> a.log, guard |-> a.guard]

\* amend_in_place without the update_volume of the level
amend_in_place_NoVolume(b, order_id, new_quantity) ==
    [book |-> [b EXCEPT !.active_orders[order_id].quantity = new_quantity],
     ret |-> TRUE, log |-> <<>>, guard |-> "none"]

\* amend_order, the branch that keeps the price: the quantity in place
amend_in_place(b, order_id, new_quantity) ==
    LET ord  == b.active_orders[order_id]
        side == fetch_side(b, ord.is_buy)
        b1   == IF ord.price \in DOMAIN side
                THEN [store_side(b, ord.is_buy,
                          [side EXCEPT ![ord.price] =
                              update_volume(@, ord.quantity, new_quantity)])
                      EXCEPT !.active_orders[order_id].quantity = new_quantity]
                ELSE b
    IN  [book |-> b1, ret |-> TRUE, log |-> <<>>, guard |-> "none"]

amend_order(b, order_id, new_price, new_quantity) ==
    IF order_id \notin DOMAIN b.active_orders
    THEN [book |-> b, ret |-> FALSE, log |-> <<>>, guard |-> "none"]
    ELSE IF b.active_orders[order_id].price # new_price
         THEN amend_reprice(b, order_id, new_price, new_quantity)
         ELSE amend_in_place(b, order_id, new_quantity)

\* struct PriceLevel, an entry of a snapshot
PriceLevel(p, qty) == [price |-> p, total_quantity |-> qty]

\* the loop test bids.size() < depth with <= for <
snapshot_room_OneMore(size, depth) == size <= depth

\* the loop test bids.size() < depth (asks.size() < depth)
snapshot_room(size, depth) == size < depth

\* the loop over bid_levels from rbegin(): rest are the keys not yet visited
RECURSIVE snapshot_bids(_, _, _, _)
snapshot_bids(side, rest, bids, depth) ==
    IF rest = {} \/ ~snapshot_room(Len(bids), depth)
    THEN bids
    ELSE LET p == CHOOSE x \in rest : \A y \in rest : y <= x
         IN  snapshot_bids(side, rest \ {p},
                 Append(bids, PriceLevel(side[p].price_point,
                                         side[p].aggregate_volume)),
                 depth)

\* the loop over ask_levels from begin()
RECURSIVE snapshot_asks(_, _, _, _)
snapshot_asks(side, rest, asks, depth) ==
    IF rest = {} \/ ~snapshot_room(Len(asks), depth)
    THEN asks
    ELSE LET p == CHOOSE x \in rest : \A y \in rest : x <= y
         IN  snapshot_asks(side, rest \ {p},
                 Append(asks, PriceLevel(side[p].price_point,
                                         side[p].aggregate_volume)),
                 depth)

\* get_snapshot: the two vectors after the call (cleared, then filled)
get_snapshot(b, depth) ==
    [bids |-> snapshot_bids(b.bid_levels, DOMAIN b.bid_levels, <<>>, depth),
     asks |-> snapshot_asks(b.ask_levels, DOMAIN b.ask_levels, <<>>, depth)]

\* ---------------------------------------------------------- state machine
TheBook == Book(bid_levels, ask_levels, active_orders)

Order(id, buy, p, qty) ==
    [order_id |-> id, is_buy |-> buy, price |-> p, quantity |-> qty]

\* the last call made on the book and its arguments
Call(op, id, buy, p, qty) ==
    [op |-> op, order_id |-> id, is_buy |-> buy, price |-> p, quantity |-> qty]

\* OrderBook orderBook; : three empty containers
Init ==
    /\ bid_levels = EmptyMap
    /\ ask_levels = EmptyMap
    /\ active_orders = EmptyMap
    /\ call = Call("none", 0, FALSE, 0, 0)
    /\ before = Book(EmptyMap, EmptyMap, EmptyMap)
    /\ result = "void"
    /\ matching = <<>>
    /\ guard = "none"
    /\ snapshot = [bids |-> <<>>, asks |-> <<>>]

SetBook(b) ==
    /\ bid_levels' = b.bid_levels
    /\ ask_levels' = b.ask_levels
    /\ active_orders' = b.active_orders

BoolStr(x) == IF x THEN "true" ELSE "false"

\* The caller is between two calls: the calls on the book are serialized, each
\* returns (and its return value and printed trades are read) before the next.
Idle == call.op = "none"

AddOrder(id, buy, p, qty) ==
    /\ Idle
    /\ \E r \in {add_order(TheBook, Order(id, buy, p, qty))} :
        /\ SetBook(r.book)
        /\ call' = Call("add", id, buy, p, qty)
        /\ before' = TheBook
        /\ result' = "void"
        /\ matching' = r.log
        /\ guard' = r.guard
        /\ UNCHANGED snapshot

CancelOrder(id) ==
    /\ Idle
    /\ \E r \in {cancel_order(TheBook, id)} :
        /\ SetBook(r.book)
        /\ call' = Call("cancel", id, FALSE, 0, 0)
        /\ before' = TheBook
        /\ result' = BoolStr(r.ret)
        /\ matching' = <<>>
        /\ guard' = "none"
        /\ UNCHANGED snapshot

AmendOrder(id, p, qty) ==
    /\ Idle
    /\ \E r \in {amend_order(TheBook, id, p, qty)} :
        /\ SetBook(r.book)
        /\ call' = Call("amend", id, FALSE, p, qty)
        /\ before' = TheBook
        /\ result' = BoolStr(r.ret)
        /\ matching' = r.log
        /\ guard' = r.guard
        /\ UNCHANGED snapshot

\* cancel_order(id) of an active order followed by add_order of the fields the
\* order had (Order(id, side, price, remaining quantity)): two calls in a row,
\* recorded as one; before is the book the first of them was made on and
\* matching the steps of the second.
CancelThenAdd(id) ==
    /\ Idle
    /\ id \in DOMAIN active_orders
    /\ \E r \in {add_order(cancel_order(TheBook, id).book, active_orders[id])} :
        /\ SetBook(r.book)
        /\ call' = Call("cancel_add", id, active_orders[id].is_buy,
                        active_orders[id].price, active_orders[id].quantity)
        /\ before' = TheBook
        /\ result' = BoolStr(cancel_order(TheBook, id).ret)
        /\ matching' = r.log
        /\ guard' = r.guard
        /\ UNCHANGED snapshot

\* get_snapshot(depth, bids, asks): a const member, the book is not written
GetSnapshot(depth) ==
    /\ Idle
    /\ snapshot' = get_snapshot(TheBook, depth)
    /\ call' = Call("snapshot", 0, FALSE, 0, depth)
    /\ before' = TheBook
    /\ result' = "void"
    /\ matching' = <<>>
    /\ guard' = "none"
    /\ UNCHANGED <<bid_levels, ask_levels, active_orders>>

\* The caller has read the outcome of the call and goes on to the next one;
\* the book is as the call left it.
Return ==
    /\ ~Idle
    /\ call' = Call("none", 0, FALSE, 0, 0)
    /\ before' = TheBook
    /\ result' = "void"
    /\ matching' = <<>>
    /\ guard' = "none"
    /\ snapshot' = [bids |-> <<>>, asks |-> <<>>]
    /\ UNCHANGED <<bid_levels, ask_levels, active_orders>>

Next ==
    \/ \E id \in Ids, buy \in BOOLEAN, p \in Prices, qty \in Qtys :
           AddOrder(id, buy, p, qty)
    \/ \E id \in Ids : CancelOrder(id)
    \/ \E id \in Ids, p \in Prices, qty \in Qtys : AmendOrder(id, p, qty)
    \/ \E id \in Ids : CancelThenAdd(id)
    \/ \E depth \in Depths : GetSnapshot(depth)
    \/ Return

Spec == Init /\ [][Next]_vars

\* --------------------------------------------- vocabulary of the properties
\* the queue of the level of one side at price p of book b, empty if no level
QueueAt(b, buy, p) ==
    IF p \in DOMAIN fetch_side(b, buy)
    THEN fetch_side(b, buy)[p].order_queue
    ELSE <<>>

InQueue(q, id) == \E i \in 1..Len(q) : q[i] = id

PosIn(q, id) == CHOOSE i \in 1..Len(q) : q[i] = id

Occurrences(q, id) == Cardinality({i \in 1..Len(q) : q[i] = id})

Without(q, id) == SelectSeq(q, LAMBDA x : x # id)

RECURSIVE SumQty(_, _)
SumQty(orders, q) ==
    IF q = <<>> THEN 0 ELSE orders[Head(q)].quantity + SumQty(orders, Tail(q))

\* the (side, price) pairs that have a level in book b
LevelKeys(b) ==
    {<<TRUE, p>> : p \in DOMAIN b.bid_levels} \cup
    {<<FALSE, p>> : p \in DOMAIN b.ask_levels}

LevelAt(b, k) == fetch_side(b, k[1])[k[2]]

\* a call has returned and its outcome is recorded
Called(op) == call.op = op

\* ------------------------------------------------------------------- C1
\* C1: after every addOrder, cancelOrder and amendOrder call the book is not
\* crossed: when both sides have a level, every bid price (so the highest) is
\* strictly below every ask price (so the lowest).
C1_NotCrossed ==
    (DOMAIN bid_levels # {} /\ DOMAIN ask_levels # {}) =>
        \A bp \in DOMAIN bid_levels, ap \in DOMAIN ask_levels : bp < ap

\* an insertion that matched and left orders resting on both sides
C1_Witness ==
    /\ Called("add")
    /\ matching # <<>>
    /\ DOMAIN bid_levels # {}
    /\ DOMAIN ask_levels # {}

\* ------------------------------------------------------------------- C2
\* C2: after every call, each level's aggregate quantity is the sum of the
\* registry's remaining quantities of the identifiers in that level's queue.
C2_AggregateIsSum ==
    \A k \in LevelKeys(TheBook) :
        LET level == LevelAt(TheBook, k)
        IN  /\ \A i \in 1..Len(level.order_queue) :
                   level.order_queue[i] \in DOMAIN active_orders
            /\ level.aggregate_volume = SumQty(active_orders, level.order_queue)

\* a match filled the head of a level partly, with another order behind it
C2_Witness ==
    /\ Called("add")
    /\ \E i \in 1..Len(matching), k \in LevelKeys(TheBook) :
          LET q == LevelAt(TheBook, k).order_queue
              t == matching[i].trade
          IN  /\ Len(q) >= 2
              /\ t.match_qty > 0
              /\ Head(q) \in {t.bid_id, t.ask_id}
              /\ active_orders[Head(q)].quantity > 0

\* ------------------------------------------------------------------- C3
\* C3: after every call, each identifier of the registry occurs exactly once
\* over all queues of both sides, in the queue of the level at the registry's
\* side and price for it, and every identifier in a queue is in the registry.
C3_RegistryAgreesWithQueues ==
    /\ \A id \in DOMAIN active_orders :
          LET ord == active_orders[id]
          IN  /\ ord.order_id = id
              /\ Occurrences(QueueAt(TheBook, ord.is_buy, ord.price), id) = 1
              /\ \A k \in LevelKeys(TheBook) :
                     k # <<ord.is_buy, ord.price>> =>
                         ~InQueue(LevelAt(TheBook, k).order_queue, id)
    /\ \A k \in LevelKeys(TheBook) :
          \A i \in 1..Len(LevelAt(TheBook, k).order_queue) :
              LevelAt(TheBook, k).order_queue[i] \in DOMAIN active_orders

\* a price-changing amendment moved an order to another level while another
\* order rests in the book
C3_Witness ==
    /\ Called("amend")
    /\ result = "true"
    /\ call.order_id \in DOMAIN active_orders
    /\ before.active_orders[call.order_id].price # call.price
    /\ Cardinality(DOMAIN active_orders) >= 2

\* ------------------------------------------------------------------- C4
\* C4: after every call no level with an empty queue is indexed: a level is
\* indexed at a side and price exactly when an active order rests there.
C4_LevelIffOrder ==
    /\ \A k \in LevelKeys(TheBook) : LevelAt(TheBook, k).order_queue # <<>>
    /\ \A k \in LevelKeys(TheBook) :
          \E id \in DOMAIN active_orders :
              active_orders[id].is_buy = k[1] /\ active_orders[id].price = k[2]
    /\ \A id \in DOMAIN active_orders :
          <<active_orders[id].is_buy, active_orders[id].price>> \in LevelKeys(TheBook)

\* a cancellation removed the last order of a level and the level is gone,
\* while other levels remain
C4_Witness ==
    /\ Called("cancel")
    /\ result = "true"
    /\ LevelKeys(TheBook) # {}
    /\ \E k \in LevelKeys(before) : k \notin LevelKeys(TheBook)

\* ------------------------------------------------------------------- C5
\* the call was a price-changing amendment of order id
RepricedBy(id) ==
    /\ Called("amend")
    /\ call.order_id = id
    /\ id \in DOMAIN before.active_orders
    /\ before.active_orders[id].price # call.price

\* C5: FIFO is kept by every single call.  Two orders X, Y that rest in a level
\* with X ahead of Y before the call and that both rest in that level after it
\* (the call not being a price-changing amendment of X or Y) have X ahead of Y
\* after it; and an identifier that enters a level's queue enters at its tail.
C5_FifoPreserved ==
    (Called("add") \/ Called("cancel") \/ Called("amend")) =>
    \A k \in LevelKeys(TheBook) :
        LET q0 == QueueAt(before, k[1], k[2])
            q1 == LevelAt(TheBook, k).order_queue
        IN  /\ \A x \in DOMAIN active_orders, y \in DOMAIN active_orders :
                   ( /\ x # y
                     /\ InQueue(q0, x) /\ InQueue(q0, y)
                     /\ InQueue(q1, x) /\ InQueue(q1, y)
                     /\ PosIn(q0, x) < PosIn(q0, y)
                     /\ ~RepricedBy(x) /\ ~RepricedBy(y) )
                   => PosIn(q1, x) < PosIn(q1, y)
            /\ \A i \in 1..Len(q1) : ~InQueue(q0, q1[i]) => i = Len(q1)

\* an insertion filled the head of a level partly, and the orders queued
\* behind it are still behind it
C5_Witness ==
    /\ Called("add")
    /\ matching # <<>>
    /\ \E k \in LevelKeys(TheBook) :
          LET q0 == QueueAt(before, k[1], k[2])
              q1 == LevelAt(TheBook, k).order_queue
          IN  /\ Len(q0) >= 2
              /\ q1 = q0
              /\ active_orders[Head(q1)].quantity > 0
              /\ active_orders[Head(q1)].quantity
                     < before.active_orders[Head(q0)].quantity

\* ------------------------------------------------------------------- C6
\* the order inserted by the call, if the call inserts one
Incoming ==
    IF Called("add") /\ call.order_id \notin DOMAIN before.active_orders
    THEN {call.order_id}
    ELSE IF RepricedBy(call.order_id) THEN {call.order_id} ELSE {}

\* C6: every trade pairs the head of the highest-priced bid level with the head
\* of the lowest-priced ask level of the book as it stands at that trade, at
\* a bid price >= the ask price: no bid with a higher price and no ask with a
\* lower price is in the book, and neither party has an order ahead of it in
\* its queue.  The steps follow one another from the book with the order
\* inserted to the book the call leaves, and matching stops only with the
\* inserted order gone or with the prices no longer crossing.
C6_PriceTimePriority ==
    /\ \A i \in 1..Len(matching) :
          LET pre == matching[i].pre
              t   == matching[i].trade
          IN  /\ t.bid_id \in DOMAIN pre.active_orders
              /\ t.ask_id \in DOMAIN pre.active_orders
              /\ pre.active_orders[t.bid_id].is_buy
              /\ ~pre.active_orders[t.ask_id].is_buy
              /\ t.bid_price = pre.active_orders[t.bid_id].price
              /\ t.ask_price = pre.active_orders[t.ask_id].price
              /\ t.bid_price >= t.ask_price
              /\ \A id \in DOMAIN pre.active_orders :
                     LET o == pre.active_orders[id]
                     IN  IF o.is_buy THEN o.price <= t.bid_price
                                     ELSE o.price >= t.ask_price
              /\ PosIn(QueueAt(pre, TRUE, t.bid_price), t.bid_id) = 1
              /\ PosIn(QueueAt(pre, FALSE, t.ask_price), t.ask_id) = 1
              /\ IF i < Len(matching)
                 THEN matching[i + 1].pre = matching[i].post
                 ELSE matching[i].post = TheBook
    /\ \A id \in Incoming :
          \/ id \notin DOMAIN active_orders
          \/ \A bp \in DOMAIN bid_levels, ap \in DOMAIN ask_levels : bp < ap

\* an aggressive sell consumed the bids of two price levels, the higher first
C6_Witness ==
    /\ Called("add")
    /\ ~call.is_buy
    /\ Len(matching) >= 2
    /\ matching[1].trade.bid_price > matching[2].trade.bid_price
    /\ matching[1].trade.match_qty > 0
    /\ matching[2].trade.match_qty > 0

\* ------------------------------------------------------------------- C7
\* one party of a match step: its order before the step was ord, at the head
\* of its level; m is the matched quantity
PartyAfterStep(pre, post, id, m) ==
    LET ord == pre.active_orders[id]
        k   == <<ord.is_buy, ord.price>>
        l0  == LevelAt(pre, k)
    IN  IF ord.quantity - m = 0
        THEN /\ id \notin DOMAIN post.active_orders
             /\ ~InQueue(QueueAt(post, k[1], k[2]), id)
             /\ (k \notin LevelKeys(post)) <=> (Len(l0.order_queue) = 1)
             /\ k \in LevelKeys(post) =>
                    /\ LevelAt(post, k).order_queue = Tail(l0.order_queue)
                    /\ LevelAt(post, k).aggregate_volume = l0.aggregate_volume - m
        ELSE /\ id \in DOMAIN post.active_orders
             /\ post.active_orders[id] = [ord EXCEPT !.quantity = ord.quantity - m]
             /\ post.active_orders[id].quantity > 0
             /\ k \in LevelKeys(post)
             /\ LevelAt(post, k).order_queue = l0.order_queue
             /\ Head(LevelAt(post, k).order_queue) = id
             /\ LevelAt(post, k).aggregate_volume = l0.aggregate_volume - m

\* C7: each match step matches the minimum of the two heads' remaining
\* quantities, takes it from both orders and from both levels' aggregates,
\* removes each of the two orders that reached zero from its queue and from the
\* registry (evicting a level left empty), and leaves an order that still has
\* quantity at the head of its level with the reduced quantity.
C7_MatchStep ==
    \A i \in 1..Len(matching) :
        LET pre  == matching[i].pre
            post == matching[i].post
            t    == matching[i].trade
            bq   == pre.active_orders[t.bid_id].quantity
            aq   == pre.active_orders[t.ask_id].quantity
        IN  /\ t.match_qty <= bq
            /\ t.match_qty <= aq
            /\ t.match_qty \in {bq, aq}
            /\ PartyAfterStep(pre, post, t.bid_id, t.match_qty)
            /\ PartyAfterStep(pre, post, t.ask_id, t.match_qty)
            /\ DOMAIN post.active_orders \cup {t.bid_id, t.ask_id}
                   = DOMAIN pre.active_orders

\* a step filled the bid completely and removed it, and left the ask at the
\* head of its level with a smaller, positive quantity
C7_Witness ==
    \E i \in 1..Len(matching) :
        LET t == matching[i].trade
        IN  /\ t.match_qty > 0
            /\ t.bid_id \notin DOMAIN matching[i].post.active_orders
            /\ t.ask_id \in DOMAIN matching[i].post.active_orders
            /\ matching[i].post.active_orders[t.ask_id].quantity > 0

\* ------------------------------------------------------------------- C8
\* C8: addOrder with an identifier that is active is a no-op, whatever side,
\* price and quantity the order carries: the registry, both indexes, every
\* queue and every aggregate are as before the call, and no trade is emitted.
C8_DuplicateAddNoOp ==
    (Called("add") /\ call.order_id \in DOMAIN before.active_orders) =>
        /\ active_orders = before.active_orders
        /\ bid_levels = before.bid_levels
        /\ ask_levels = before.ask_levels
        /\ matching = <<>>

\* a duplicate that carries another side and quantity than the active order
\* and a price that would cross the book
C8_Witness ==
    /\ Called("add")
    /\ call.order_id \in DOMAIN before.active_orders
    /\ before.active_orders[call.order_id].is_buy # call.is_buy
    /\ before.active_orders[call.order_id].quantity # call.quantity
    /\ call.quantity > 0
    /\ \E id \in DOMAIN before.active_orders :
          LET o == before.active_orders[id]
          IN  /\ o.is_buy # call.is_buy
              /\ o.quantity > 0
              /\ IF call.is_buy THEN call.price >= o.price
                                ELSE call.price <= o.price

\* ------------------------------------------------------------------- C9
\* C9: cancelOrder and amendOrder with an identifier that is not active return
\* false, leave the whole book as it was and emit no trade; with an active
\* identifier both return true.  (The registry holds active orders only, so an
\* identifier never inserted, one cancelled and one fully filled are the same
\* case: absent from active_orders.)
C9_UnknownIdRejected ==
    (Called("cancel") \/ Called("amend")) =>
        IF call.order_id \in DOMAIN before.active_orders
        THEN result = "true"
        ELSE /\ result = "false"
             /\ TheBook = before
             /\ matching = <<>>

\* an amendment of an identifier that is not active, at a price that would
\* cross resting orders, made on a book that holds other orders
C9_Witness ==
    /\ Called("amend")
    /\ call.order_id \notin DOMAIN before.active_orders
    /\ result = "false"
    /\ call.quantity > 0
    /\ DOMAIN before.bid_levels # {}
    /\ DOMAIN before.ask_levels # {}

\* ------------------------------------------------------------------ C10
\* C10: cancelOrder of an active identifier returns true, removes it from the
\* registry and from its level's queue, lowers that level's aggregate by the
\* order's remaining quantity, evicts the level if its queue became empty,
\* emits no trade, and leaves every other order, the order of the rest of the
\* queue and every other level as they were.
C10_CancelEffect ==
    (Called("cancel") /\ call.order_id \in DOMAIN before.active_orders) =>
        LET id  == call.order_id
            ord == before.active_orders[id]
            k   == <<ord.is_buy, ord.price>>
            l0  == LevelAt(before, k)
        IN  /\ result = "true"
            /\ matching = <<>>
            /\ DOMAIN active_orders = DOMAIN before.active_orders \ {id}
            /\ \A x \in DOMAIN active_orders :
                   active_orders[x] = before.active_orders[x]
            /\ LevelKeys(TheBook) \cup {k} = LevelKeys(before)
            /\ (k \notin LevelKeys(TheBook)) <=> (l0.order_queue = <<id>>)
            /\ k \in LevelKeys(TheBook) =>
                   /\ LevelAt(TheBook, k).order_queue = Without(l0.order_queue, id)
                   /\ Len(LevelAt(TheBook, k).order_queue) = Len(l0.order_queue) - 1
                   /\ LevelAt(TheBook, k).aggregate_volume
                          = l0.aggregate_volume - ord.quantity
                   /\ LevelAt(TheBook, k).price_point = l0.price_point
            /\ \A j \in LevelKeys(TheBook) \ {k} :
                   LevelAt(TheBook, j) = LevelAt(before, j)

\* the order cancelled had quantity, was not the last of its queue, which
\* held others, and other levels were indexed on both sides
C10_Witness ==
    /\ Called("cancel")
    /\ result = "true"
    /\ LET ord == before.active_orders[call.order_id]
           q0  == QueueAt(before, ord.is_buy, ord.price)
       IN  /\ ord.quantity > 0
           /\ Len(q0) >= 2
           /\ q0[Len(q0)] # call.order_id
    /\ DOMAIN bid_levels # {}
    /\ DOMAIN ask_levels # {}

\* ------------------------------------------------------------------ C19
\* the quantities of callers that never pass zero
PositiveQtys == 1..MaxQty

\* the calls of Next, with every quantity passed to add_order and amend_order
\* at least 1
NextPositive ==
    \/ \E id \in Ids, buy \in BOOLEAN, p \in Prices, qty \in PositiveQtys :
           AddOrder(id, buy, p, qty)
    \/ \E id \in Ids : CancelOrder(id)
    \/ \E id \in Ids, p \in Prices, qty \in PositiveQtys : AmendOrder(id, p, qty)
    \/ \E id \in Ids : CancelThenAdd(id)
    \/ \E depth \in Depths : GetSnapshot(depth)
    \/ Return

SpecPositive == Init /\ [][NextPositive]_vars

\* ------------------------------------------------------------------ C11
\* C11: a price-changing amendOrder(id, p2, q2) of an active order of side s
\* leaves the book and the trades that cancelOrder(id) followed by
\* addOrder(id, s, p2, q2) leave: the order has left its old level (evicted if
\* that emptied it), rests, if it still rests, at the tail of the level at p2
\* with side s, and matching has run on it.
C11_RepriceIsCancelThenAdd ==
    RepricedBy(call.order_id) =>
        LET id  == call.order_id
            old == before.active_orders[id]
            c   == cancel_order(before, id)
            a   == add_order(c.book, Order(id, old.is_buy, call.price, call.quantity))
            q2  == QueueAt(TheBook, old.is_buy, call.price)
        IN  /\ result = "true"
            /\ c.ret
            /\ TheBook = a.book
            /\ matching = a.log
            /\ ~InQueue(QueueAt(TheBook, old.is_buy, old.price), id)
            /\ QueueAt(before, old.is_buy, old.price) = <<id>> =>
                   <<old.is_buy, old.price>> \notin LevelKeys(TheBook)
            /\ id \in DOMAIN active_orders =>
                   /\ active_orders[id].is_buy = old.is_buy
                   /\ active_orders[id].price = call.price
                   /\ active_orders[id].quantity <= call.quantity
                   /\ q2 # <<>>
                   /\ q2[Len(q2)] = id
                   /\ SubSeq(q2, 1, Len(q2) - 1)
                          = QueueAt(before, old.is_buy, call.price)
            /\ id \notin DOMAIN active_orders => matching # <<>>

\* an amendment moved the last order of its level to a crossing price, where
\* it was filled partly at once and rests with the remainder
C11_Witness ==
    /\ RepricedBy(call.order_id)
    /\ matching # <<>>
    /\ matching[1].trade.match_qty > 0
    /\ call.order_id \in DOMAIN active_orders
    /\ active_orders[call.order_id].quantity > 0
    /\ LET old == before.active_orders[call.order_id]
       IN  QueueAt(before, old.is_buy, old.price) = <<call.order_id>>

\* ------------------------------------------------------------------ C12
\* the call was an amendment of order id at the price the order has
InPlaceBy(id) ==
    /\ Called("amend")
    /\ call.order_id = id
    /\ id \in DOMAIN before.active_orders
    /\ before.active_orders[id].price = call.price

\* C12: a same-price amendOrder(id, p, q2) of an active order with remaining
\* quantity q sets the registry quantity to q2, changes its level's aggregate
\* by q2 - q, keeps the queue of the level as it is, emits no trade and leaves
\* every other order and every other level unchanged.
C12_InPlaceAmend ==
    InPlaceBy(call.order_id) =>
        LET id  == call.order_id
            old == before.active_orders[id]
            k   == <<old.is_buy, old.price>>
        IN  /\ result = "true"
            /\ matching = <<>>
            /\ DOMAIN active_orders = DOMAIN before.active_orders
            /\ active_orders[id] = [old EXCEPT !.quantity = call.quantity]
            /\ \A x \in DOMAIN active_orders \ {id} :
                   active_orders[x] = before.active_orders[x]
            /\ LevelKeys(TheBook) = LevelKeys(before)
            /\ LevelAt(TheBook, k).order_queue = LevelAt(before, k).order_queue
            /\ LevelAt(TheBook, k).price_point = LevelAt(before, k).price_point
            /\ LevelAt(TheBook, k).aggregate_volume
                   = LevelAt(before, k).aggregate_volume
                         + (call.quantity - old.quantity)
            /\ \A j \in LevelKeys(TheBook) \ {k} :
                   LevelAt(TheBook, j) = LevelAt(before, j)

\* the quantity of the head of a queue of several orders was changed, with
\* levels on both sides
C12_Witness ==
    /\ InPlaceBy(call.order_id)
    /\ LET old == before.active_orders[call.order_id]
           q0  == QueueAt(before, old.is_buy, old.price)
       IN  /\ Len(q0) >= 2
           /\ Head(q0) = call.order_id
           /\ call.quantity # old.quantity
           /\ call.quantity > 0
    /\ DOMAIN bid_levels # {}
    /\ DOMAIN ask_levels # {}

\* ------------------------------------------------------------------ C13
\* the ids queued in a level, as a set
QueuedIds(q) == {q[i] : i \in 1..Len(q)}

\* C13: cancelOrder(id) of an active order followed by addOrder of the fields
\* it had emits no trade and leaves the registry, the levels of each side,
\* every aggregate and every level's set of identifiers as they were; the one
\* difference is that id sits at the tail of its level's queue.
C13_CancelAddRoundTrip ==
    Called("cancel_add") =>
        LET id  == call.order_id
            old == before.active_orders[id]
            k0  == <<old.is_buy, old.price>>
        IN  /\ result = "true"
            /\ matching = <<>>
            /\ guard = "none"
            /\ active_orders = before.active_orders
            /\ LevelKeys(TheBook) = LevelKeys(before)
            /\ \A k \in LevelKeys(TheBook) :
                   /\ LevelAt(TheBook, k).aggregate_volume
                          = LevelAt(before, k).aggregate_volume
                   /\ LevelAt(TheBook, k).price_point
                          = LevelAt(before, k).price_point
                   /\ QueuedIds(LevelAt(TheBook, k).order_queue)
                          = QueuedIds(LevelAt(before, k).order_queue)
                   /\ LevelAt(TheBook, k).order_queue =
                          IF k = k0
                          THEN Append(Without(LevelAt(before, k).order_queue, id), id)
                          ELSE LevelAt(before, k).order_queue

\* the order taken out and put back was the head of a queue of several
\* orders, and the other side had orders too
C13_Witness ==
    /\ Called("cancel_add")
    /\ LET old == before.active_orders[call.order_id]
           q0  == QueueAt(before, old.is_buy, old.price)
       IN  /\ Len(q0) >= 2
           /\ Head(q0) = call.order_id
           /\ old.quantity > 0
           /\ fetch_side(before, ~old.is_buy) # EmptyMap

\* ------------------------------------------------------------------ C14
\* the prices indexed on one side of the book
SidePrices(b, buy) == DOMAIN fetch_side(b, buy)

\* the smaller of two numbers
Least(a, b) == IF a <= b THEN a ELSE b

\* one returned side lists the first Least(depth, levels) levels best first,
\* each with the level's price and aggregate
SnapshotSideOk(out, side, buy, depth) ==
    /\ Len(out) = Least(depth, Cardinality(DOMAIN side))
    /\ \A i \in 1..Len(out) :
           /\ out[i].price \in DOMAIN side
           /\ out[i].price = side[out[i].price].price_point
           /\ out[i].total_quantity = side[out[i].price].aggregate_volume
    /\ \A i \in 1..(Len(out) - 1) :
           IF buy THEN out[i].price > out[i + 1].price
                  ELSE out[i].price < out[i + 1].price
    /\ Len(out) > 0 => out[1].price = IF buy THEN MaxKey(side) ELSE MinKey(side)
    /\ \A p \in DOMAIN side \ {out[i].price : i \in 1..Len(out)} :
           \A i \in 1..Len(out) :
               IF buy THEN p < out[i].price ELSE p > out[i].price

\* C14: get_snapshot(depth) leaves the book unchanged and returns, per side,
\* the first min(depth, number of levels) levels best first (bids by strictly
\* decreasing price from the highest, asks by strictly increasing price from
\* the lowest), each as (level price, level aggregate).
C14_Snapshot ==
    Called("snapshot") =>
        /\ TheBook = before
        /\ SnapshotSideOk(snapshot.bids, bid_levels, TRUE, call.quantity)
        /\ SnapshotSideOk(snapshot.asks, ask_levels, FALSE, call.quantity)

\* a snapshot of depth 1 was taken of a book with two bid levels and an ask
\* level: the bid side was truncated to the best bid
C14_Witness ==
    /\ Called("snapshot")
    /\ call.quantity = 1
    /\ Cardinality(DOMAIN bid_levels) = 2
    /\ DOMAIN ask_levels # {}
    /\ Len(snapshot.bids) = 1
    /\ snapshot.bids[1].total_quantity > 0

\* ------------------------------------------------------------------ C15
\* C15 (refuted by the code): after every add_order, cancel_order and
\* amend_order, for every quantity the interface accepts, 0 included, every
\* indexed level has an aggregate above zero.  add_order of quantity 0 at a
\* price that does not cross, and a same-price amend_order to quantity 0,
\* leave a level indexed with aggregate 0.
C15_NoZeroLevel ==
    \A k \in LevelKeys(TheBook) : LevelAt(TheBook, k).aggregate_volume > 0

\* what the code does keep: an indexed level has aggregate zero only when
\* every order queued in it has quantity zero, and its queue is not empty
C15_ZeroLevelOnlyFromZeroOrders ==
    \A k \in LevelKeys(TheBook) :
        /\ LevelAt(TheBook, k).order_queue # <<>>
        /\ LevelAt(TheBook, k).aggregate_volume = 0 =>
               \A i \in 1..Len(LevelAt(TheBook, k).order_queue) :
                   active_orders[LevelAt(TheBook, k).order_queue[i]].quantity = 0

\* ------------------------------------------------------------------ C16
\* C16: the matching loop ends: every iteration that matches removes at least
\* one order from the registry, so one add_order or amend_order emits at most
\* as many trades as there were active orders when matching began, and the
\* call never stays in the loop on an unchanged book (which is what the early
\* return of process_match would leave behind).
C16_MatchingTerminates ==
    /\ guard # "missing_id"
    /\ \A i \in 1..Len(matching) :
           /\ DOMAIN matching[i].post.active_orders
                  \subseteq DOMAIN matching[i].pre.active_orders
           /\ DOMAIN matching[i].post.active_orders
                  # DOMAIN matching[i].pre.active_orders
    /\ matching # <<>> =>
           Len(matching) <= Cardinality(DOMAIN matching[1].pre.active_orders)

\* one call matched twice, one of the matches with an order of quantity zero
C16_Witness ==
    /\ Len(matching) >= 2
    /\ \E i \in 1..Len(matching) : matching[i].trade.match_qty = 0
    /\ \E i \in 1..Len(matching) : matching[i].trade.match_qty > 0

\* ------------------------------------------------------------------ C17
\* C17: in every execution of add_order, cancel_order and amend_order the
\* matching loop never finds an indexed best level with an empty queue, and
\* process_match never gets a head identifier that the registry lacks:
\* neither defensive branch is taken.
C17_GuardsNotTaken == guard = "none"

\* a call matched at least twice and emptied a level on each side, which
\* cleanup_level evicted while the loop went on
C17_Witness ==
    /\ Len(matching) >= 2
    /\ guard = "none"
    /\ \E p \in DOMAIN matching[1].pre.bid_levels : p \notin DOMAIN bid_levels
    /\ \E p \in DOMAIN matching[1].pre.ask_levels : p \notin DOMAIN ask_levels

\* ------------------------------------------------------------------ C18
\* C18: every trade of an add_order, or of the add_order inside a
\* price-changing amend_order, has the inserted order as its bid or its ask
\* party and as the other party an order that rested before the call; no
\* other call trades; once the inserted order has left the registry the call
\* emits no further trade.
C18_TradesInvolveIncoming ==
    \A i \in 1..Len(matching) :
        /\ Incoming = {call.order_id}
        /\ call.order_id \in {matching[i].trade.bid_id, matching[i].trade.ask_id}
        /\ matching[i].trade.bid_id # matching[i].trade.ask_id
        /\ {matching[i].trade.bid_id, matching[i].trade.ask_id} \ {call.order_id}
               \subseteq DOMAIN before.active_orders
        /\ call.order_id \in DOMAIN matching[i].pre.active_orders
        /\ call.order_id \notin DOMAIN matching[i].post.active_orders =>
               i = Len(matching)

\* an inserted order traded with two resting orders; the second trade filled
\* it and ended the matching
C18_Witness ==
    /\ Called("add")
    /\ Len(matching) = 2
    /\ matching[1].trade.match_qty > 0
    /\ matching[2].trade.match_qty > 0
    /\ call.order_id \notin DOMAIN active_orders
    /\ matching[2].pre.active_orders[call.order_id].quantity < call.quantity

\* ------------------------------------------------------------------ C19
\* C19 (under SpecPositive): when every quantity passed to add_order and
\* amend_order is at least 1, every active order has remaining quantity at
\* least 1 after every call and after every match of a call, and every trade
\* has matched quantity at least 1.
C19_PositiveQuantities ==
    /\ \A id \in DOMAIN active_orders : active_orders[id].quantity >= 1
    /\ \A i \in 1..Len(matching) :
           /\ matching[i].trade.match_qty >= 1
           /\ \A id \in DOMAIN matching[i].post.active_orders :
                  matching[i].post.active_orders[id].quantity >= 1

\* a match filled one party, which left the registry, and left the other
\* resting with a smaller quantity
C19_Witness ==
    /\ Len(matching) = 1
    /\ \E id \in DOMAIN active_orders :
           /\ id \in {matching[1].trade.bid_id, matching[1].trade.ask_id}
           /\ active_orders[id].quantity
                  < matching[1].pre.active_orders[id].quantity
    /\ \E id \in {matching[1].trade.bid_id, matching[1].trade.ask_id} :
           id \notin DOMAIN active_orders

\* ------------------------------------------------------------------ C20
\* the call was an add_order of an identifier the registry did not hold
InsertedBy(id) ==
    /\ Called("add")
    /\ call.order_id = id
    /\ id \notin DOMAIN before.active_orders

\* a price on the other side that an incoming order of side buy at limit p
\* does not cross
NotCrossing(buy, p, other) == IF buy THEN other > p ELSE other < p

\* C20: add_order of a non-duplicate order of side s at limit p changes no
\* other order of side s (quantity, price, relative queue order) and no order
\* of the other side at a price that does not cross p; an order it changes or
\* removes is on the other side at a crossing price, and a changed one only
\* has its quantity reduced.
C20_InsertionFrame ==
    InsertedBy(call.order_id) =>
        LET id == call.order_id
            s  == call.is_buy
            p  == call.price
        IN  /\ \A x \in DOMAIN before.active_orders :
                   LET o == before.active_orders[x]
                   IN  IF o.is_buy = s \/ NotCrossing(s, p, o.price)
                       THEN /\ x \in DOMAIN active_orders
                            /\ active_orders[x] = o
                       ELSE x \in DOMAIN active_orders =>
                                /\ active_orders[x].is_buy = o.is_buy
                                /\ active_orders[x].price = o.price
                                /\ active_orders[x].order_id = o.order_id
                                /\ active_orders[x].quantity <= o.quantity
            /\ \A k \in LevelKeys(before) :
                   IF k[1] = s
                   THEN /\ k \in LevelKeys(TheBook)
                        /\ Without(LevelAt(TheBook, k).order_queue, id)
                               = LevelAt(before, k).order_queue
                        /\ k[2] # p => LevelAt(TheBook, k) = LevelAt(before, k)
                   ELSE NotCrossing(s, p, k[2]) =>
                            /\ k \in LevelKeys(TheBook)
                            /\ LevelAt(TheBook, k) = LevelAt(before, k)
            /\ DOMAIN active_orders \subseteq DOMAIN before.active_orders \cup {id}

\* an inserted order traded with a resting order at a crossing price and came
\* to rest with the remainder, while an order of its own side rested at
\* another price
C20_Witness ==
    /\ InsertedBy(call.order_id)
    /\ matching # <<>>
    /\ matching[1].trade.match_qty > 0
    /\ call.order_id \in DOMAIN active_orders
    /\ \E x \in DOMAIN before.active_orders :
           /\ before.active_orders[x].is_buy = call.is_buy
           /\ before.active_orders[x].quantity > 0
           /\ x \in DOMAIN active_orders

=============================================================================
